---- MODULE Spec2Model ----
(***************************************************************************)
(* Webhook-driven entitlement state machine of the Stripe demo:            *)
(*   src/lib/storage.js (first version in the file, lines 1-266) and       *)
(*   src/app/api/stripe/webhooks/route.js.                                 *)
(* The local store is the JSON document data/users.json; every storage     *)
(* function reads it, changes one customer record and writes it back.      *)
(***************************************************************************)
EXTENDS Integers, FiniteSets, Sequences, TLC

\* ---------------------------------------------------------------- bounds
MaxEvents == 4      \* requests processed in one behaviour (the clock stops there)
MaxInflight == 1    \* entitlement-summary handlers suspended between their two writes
MaxCalls == 6       \* direct storage calls in one behaviour of SpecStorage

\* ------------------------------------------------------------- universes
CustomerIds == {"cus_1"}
Emails == {"a@x.io"}
EntIds == {"ent_1", "ent_2"}
SubIds == {"sub_1"}
FeatureKeys == {"feat_a", "feat_b"}
BillingReasons == {"subscription_create", "subscription_cycle", "manual"}
AttemptCounts == {0, 1}
ProviderStatuses == {"active", "incomplete"}

Undef == "undefined"
Null == "null"

\* entitlement.lookup_key of a provider entitlement id
LookupKey(e) == IF e = "ent_1" THEN "feat_a" ELSE "feat_b"

\* {} as a JS object
EmptyMap == [e \in {} |-> Null]

\* suspensionInfo: null
NoSuspensionInfo ==
  [reason |-> Null, failedInvoiceId |-> Null, subscriptionId |-> Null,
   billingReason |-> Null, attemptCount |-> -1,
   suspendedAt |-> 0, lastAttemptAt |-> 0]

\* subscription: null
NoSubscription == [stripeSubscriptionId |-> Null, status |-> Null]

\* ----------------------------------------------------------------- state
VARIABLES
  store,      \* data.customers of data/users.json: customer id -> record
  clock,      \* value of new Date() for the next request
  last,       \* the request (or storage call) processed last
  pre,        \* data.customers before that request
  resp,       \* HTTP status of the last response (0: none)
  ret,        \* return value of the last direct storage call
  calls,      \* provider API calls made while processing the last request
  inflight,   \* summary handlers between saveCustomer and saveCustomerEntitlements
  parked,     \* history: customer id -> entitlements it had when first suspended
  prov,       \* the billing provider: customers, subscriptions, undelivered events,
              \* coupons, features, promotion codes
  run,        \* the last request to another route, or the last script run, and its result
  wipe,       \* the wipe script: its position and the steps it has run
  race,       \* storage mutations under way: what each has read, whether it has written
  cleanup     \* the cancel requests of the last webhook request's cleanup, and the failed ones

vars == <<store, clock, last, pre, resp, ret, calls, inflight, parked, prov, run, wipe, race,
          cleanup>>

\* what the webhook route and the storage functions never write
others == <<prov, run, wipe, race, cleanup>>

\* ------------------------------------------------------ storage.js (pure)

has(st, id) == id \in DOMAIN st

put(st, id, rec) == [c \in (DOMAIN st) \cup {id} |-> IF c = id THEN rec ELSE st[c]]

\* storage.js saveCustomer: customerData is spread first, then the preserved
\* nested fields; `suspended` is not among the preserved fields.  Of the
\* fields of customerData, name and created are copied the way email is and
\* are left out.
\* variant: the record is written into an empty customers map
saveCustomer_Alone(st, id, customerData, now) ==
  LET ex == has(st, id)
  IN [c \in {id} |->
        [stripeCustomerId |-> customerData.stripeCustomerId,
         email |-> customerData.email,
         metadata |-> customerData.metadata,
         suspended |-> Undef,
         entitlements |-> IF ex THEN st[id].entitlements ELSE EmptyMap,
         subscription |-> IF ex THEN st[id].subscription ELSE NoSubscription,
         suspensionInfo |-> IF ex THEN st[id].suspensionInfo ELSE NoSuspensionInfo,
         suspendedEntitlements |->
            IF ex THEN st[id].suspendedEntitlements ELSE EmptyMap,
         updatedAt |-> now]]

saveCustomer(st, id, customerData, now) ==
  LET ex == has(st, id)
      rec == [stripeCustomerId |-> customerData.stripeCustomerId,
              email |-> customerData.email,
              metadata |-> customerData.metadata,
              suspended |-> Undef,
              entitlements |-> IF ex THEN st[id].entitlements ELSE EmptyMap,
              subscription |-> IF ex THEN st[id].subscription ELSE NoSubscription,
              suspensionInfo |-> IF ex THEN st[id].suspensionInfo ELSE NoSuspensionInfo,
              suspendedEntitlements |->
                 IF ex THEN st[id].suspendedEntitlements ELSE EmptyMap,
              updatedAt |-> now]
  IN put(st, id, rec)

getCustomerEntitlements(st, id) == IF has(st, id) THEN st[id].entitlements ELSE EmptyMap

getActiveEntitlementsByCustomer(st, id) ==
  LET ents == getCustomerEntitlements(st, id)
  IN {e \in DOMAIN ents : ents[e].status = "active"}

customerHasFeature(st, id, key) ==
  LET ents == getCustomerEntitlements(st, id)
  IN \E e \in getActiveEntitlementsByCustomer(st, id) : ents[e].featureLookupKey = key

saveCustomerSubscription(st, id, subscriptionData, now) ==
  IF ~has(st, id) THEN st
  ELSE [st EXCEPT ![id].subscription = subscriptionData, ![id].updatedAt = now]

\* variant: the new entitlements are added to the ones the record has
saveCustomerEntitlements_Merge(st, id, entitlements, now) ==
  IF ~has(st, id) THEN st
  ELSE [st EXCEPT
          ![id].entitlements =
             [e \in DOMAIN st[id].entitlements \cup DOMAIN entitlements |->
                IF e \in DOMAIN entitlements THEN entitlements[e]
                ELSE st[id].entitlements[e]],
          ![id].updatedAt = now]

saveCustomerEntitlements(st, id, entitlements, now) ==
  IF ~has(st, id) THEN st
  ELSE [st EXCEPT ![id].entitlements = entitlements, ![id].updatedAt = now]

\* variant: the spread of info comes last, so its suspendedAt wins
MergeSuspensionInfo_InfoLast(old, info, now) == [info EXCEPT !.lastAttemptAt = now]

\* {...old, ...info, suspendedAt: old.suspendedAt || now, lastAttemptAt: now}
MergeSuspensionInfo(old, info, now) ==
  [info EXCEPT !.suspendedAt = IF old.suspendedAt # 0 THEN old.suspendedAt ELSE now,
               !.lastAttemptAt = now]

\* variant: entitlements are copied to suspendedEntitlements but not cleared
suspendCustomerEntitlements_KeepEnts(st, id, info, now) ==
  IF ~has(st, id) THEN [store |-> st, ret |-> FALSE]
  ELSE IF st[id].suspended = "true"
  THEN [store |-> [st EXCEPT ![id].suspensionInfo =
                      MergeSuspensionInfo(st[id].suspensionInfo, info, now)],
        ret |-> TRUE]
  ELSE [store |-> [st EXCEPT
            ![id].suspended = "true",
            ![id].suspensionInfo = [info EXCEPT !.suspendedAt = now, !.lastAttemptAt = 0],
            ![id].suspendedEntitlements =
                IF DOMAIN st[id].entitlements # {}
                THEN st[id].entitlements ELSE st[id].suspendedEntitlements,
            ![id].updatedAt = now],
        ret |-> TRUE]

\* variant: no already-suspended branch, entitlements always moved
suspendCustomerEntitlements_AlwaysMove(st, id, info, now) ==
  IF ~has(st, id) THEN [store |-> st, ret |-> FALSE]
  ELSE [store |-> [st EXCEPT
            ![id].suspended = "true",
            ![id].suspensionInfo = [info EXCEPT !.suspendedAt = now, !.lastAttemptAt = 0],
            ![id].suspendedEntitlements = st[id].entitlements,
            ![id].entitlements = EmptyMap,
            ![id].updatedAt = now],
        ret |-> TRUE]

suspendCustomerEntitlements(st, id, info, now) ==
  IF ~has(st, id) THEN [store |-> st, ret |-> FALSE]
  ELSE IF st[id].suspended = "true"
  THEN [store |-> [st EXCEPT ![id].suspensionInfo =
                      MergeSuspensionInfo(st[id].suspensionInfo, info, now)],
        ret |-> TRUE]
  ELSE LET move == DOMAIN st[id].entitlements # {}
       IN [store |-> [st EXCEPT
                 ![id].suspended = "true",
                 ![id].suspensionInfo = [info EXCEPT !.suspendedAt = now, !.lastAttemptAt = 0],
                 ![id].suspendedEntitlements =
                     IF move THEN st[id].entitlements ELSE st[id].suspendedEntitlements,
                 ![id].entitlements = IF move THEN EmptyMap ELSE st[id].entitlements,
                 ![id].updatedAt = now],
           ret |-> TRUE]

restoreCustomerEntitlements(st, id, now) ==
  IF ~has(st, id) THEN [store |-> st, ret |-> FALSE]
  ELSE IF st[id].suspended # "true" THEN [store |-> st, ret |-> TRUE]
  ELSE LET move == DOMAIN st[id].suspendedEntitlements # {}
       IN [store |-> [st EXCEPT
                 ![id].entitlements =
                     IF move THEN st[id].suspendedEntitlements ELSE st[id].entitlements,
                 ![id].suspendedEntitlements = EmptyMap,
                 ![id].suspended = "false",
                 ![id].suspensionInfo = NoSuspensionInfo,
                 ![id].updatedAt = now],
           ret |-> TRUE]

\* ------------------------------------------------- webhooks/route.js (pure)

EventTypes ==
  {"customer.created", "customer.updated",
   "payment_intent.succeeded", "payment_intent.payment_failed",
   "invoice.payment_succeeded", "invoice.payment_failed",
   "invoice.upcoming", "invoice.created",
   "customer.subscription.created", "customer.subscription.updated",
   "customer.subscription.deleted", "customer.subscription.paused",
   "customer.subscription.resumed",
   "entitlements.active_entitlement_summary.updated",
   "charge.succeeded"}

\* A webhook request: the event fields the handlers read, together with what
\* the provider answers to the API calls the handler makes (custOK, subOK:
\* customers.retrieve / subscriptions.retrieve do not throw; subStatus: the
\* status of the retrieved subscription) and whether the signature verifies.
BlankReq ==
  [type |-> Null, sigOK |-> TRUE, customer |-> Null, email |-> Null,
   subscription |-> Null, billing_reason |-> Null, attempt_count |-> -1,
   status |-> Null, prev_status |-> Undef, ents |-> {},
   custOK |-> TRUE, subOK |-> TRUE, subStatus |-> Null, listOK |-> TRUE]

\* result of a handler
Out(st, status, cs) == [store |-> st, status |-> status, calls |-> cs]

\* case 'customer.created' / 'customer.updated'
HandleCustomer(st, ev, now) ==
  Out(saveCustomer(st, ev.customer,
                   [stripeCustomerId |-> ev.customer, email |-> ev.email,
                    metadata |-> Undef], now),
      200, {})

\* case 'invoice.payment_succeeded'
HandlePaymentSucceeded(st, ev, now) ==
  IF ev.subscription # Null /\ ev.customer # Null
  THEN IF ~ev.subOK THEN Out(st, 500, {"subscriptions.retrieve"})
       ELSE Out(IF ev.subStatus = "active"
                THEN saveCustomerSubscription(st, ev.customer,
                        [stripeSubscriptionId |-> ev.subscription,
                         status |-> ev.subStatus], now)
                ELSE st,
                200,
                {"subscriptions.retrieve", "subscriptions.list", "customers.retrieve",
                 "prices.retrieve", "products.retrieve", "customers.update"})
  ELSE Out(st, 200, {})

isSubscriptionInvoice(ev) ==
  \/ ev.subscription # Null
  \/ ev.billing_reason = "subscription_create"
  \/ ev.billing_reason = "subscription_cycle"
  \/ ev.billing_reason = "subscription_update"

\* variant: the attempt count is not looked at
isInitialPaymentAttempt_AnyAttempt(ev) == ev.billing_reason = "subscription_create"

isInitialPaymentAttempt(ev) ==
  ev.billing_reason = "subscription_create" /\ ev.attempt_count = 0

\* the suspensionInfo argument built by the invoice.payment_failed case
FailedInfo(ev, now) ==
  [reason |-> "payment_failed", failedInvoiceId |-> "in_1",
   subscriptionId |-> ev.subscription, billingReason |-> ev.billing_reason,
   attemptCount |-> ev.attempt_count, suspendedAt |-> now, lastAttemptAt |-> 0]

\* variant: the initial payment attempt is not set apart
HandlePaymentFailed_NoInitialCheck(st, ev, now) ==
  IF isSubscriptionInvoice(ev) /\ ev.customer # Null
  THEN IF ev.custOK
       THEN Out(suspendCustomerEntitlements(st, ev.customer, FailedInfo(ev, now), now).store,
                200, {"customers.retrieve"})
       ELSE Out(st, 200, {"customers.retrieve"})
  ELSE Out(st, 200, {})

\* case 'invoice.payment_failed'
HandlePaymentFailed(st, ev, now) ==
  IF isSubscriptionInvoice(ev) /\ ev.customer # Null /\ ~isInitialPaymentAttempt(ev)
  THEN IF ev.custOK
       THEN Out(suspendCustomerEntitlements(st, ev.customer, FailedInfo(ev, now), now).store,
                200, {"customers.retrieve"})
       ELSE Out(st, 200, {"customers.retrieve"})
  ELSE Out(st, 200, {})

\* variant: every customer.subscription.updated is saved
HandleSubscriptionUpdated_EveryUpdate(st, ev, now) ==
  Out(saveCustomerSubscription(st, ev.customer,
         [stripeSubscriptionId |-> ev.subscription, status |-> ev.status], now),
      200, {})

\* case 'customer.subscription.updated'
HandleSubscriptionUpdated(st, ev, now) ==
  IF ev.status = "active" /\ ev.prev_status = "past_due"
  THEN Out(saveCustomerSubscription(st, ev.customer,
              [stripeSubscriptionId |-> ev.subscription, status |-> ev.status], now),
           200, {})
  ELSE Out(st, 200, {})

\* case 'customer.subscription.deleted'
HandleSubscriptionDeleted(st, ev, now) ==
  Out(saveCustomerSubscription(st, ev.customer,
         [stripeSubscriptionId |-> ev.subscription, status |-> "canceled"], now),
      200, {"customers.retrieve", "products.retrieve"})

\* case 'customer.subscription.paused'
HandleSubscriptionPaused(st, ev, now) ==
  Out(saveCustomerSubscription(st, ev.customer,
         [stripeSubscriptionId |-> ev.subscription, status |-> "paused"], now),
      200, {})

\* case 'customer.subscription.resumed'
HandleSubscriptionResumed(st, ev, now) ==
  Out(saveCustomerSubscription(st, ev.customer,
         [stripeSubscriptionId |-> ev.subscription, status |-> ev.status], now),
      200, {})

\* customerEntitlements built by handleEntitlementSummaryUpdated
BuildEntitlements(ids, now) ==
  [e \in ids |-> [stripeEntitlementId |-> e, featureLookupKey |-> LookupKey(e),
                  status |-> "active", updatedAt |-> now]]

\* handleEntitlementSummaryUpdated, first half: customers.retrieve + saveCustomer
SummarySaveCustomer(st, ev, now) ==
  saveCustomer(st, ev.customer,
               [stripeCustomerId |-> ev.customer, email |-> ev.email,
                metadata |-> "meta"], now)

\* handleEntitlementSummaryUpdated, second half: build + saveCustomerEntitlements
SummarySaveEntitlements(st, ev, now) ==
  saveCustomerEntitlements(st, ev.customer, BuildEntitlements(ev.ents, now), now)

\* case 'entitlements.active_entitlement_summary.updated'
HandleEntitlementSummaryUpdated(st, ev, now) ==
  IF ~ev.custOK THEN Out(st, 500, {"customers.retrieve"})
  ELSE Out(SummarySaveEntitlements(SummarySaveCustomer(st, ev, now), ev, now),
           200,
           {"customers.retrieve"} \cup
             (IF ev.ents # {} THEN {"entitlements.features.retrieve"} ELSE {}))

\* the switch of POST
Dispatch(st, ev, now) ==
  CASE ev.type \in {"customer.created", "customer.updated"} -> HandleCustomer(st, ev, now)
    [] ev.type = "invoice.payment_succeeded" -> HandlePaymentSucceeded(st, ev, now)
    [] ev.type = "invoice.payment_failed" -> HandlePaymentFailed(st, ev, now)
    [] ev.type = "customer.subscription.updated" -> HandleSubscriptionUpdated(st, ev, now)
    [] ev.type = "customer.subscription.deleted" -> HandleSubscriptionDeleted(st, ev, now)
    [] ev.type = "customer.subscription.paused" -> HandleSubscriptionPaused(st, ev, now)
    [] ev.type = "customer.subscription.resumed" -> HandleSubscriptionResumed(st, ev, now)
    [] ev.type = "entitlements.active_entitlement_summary.updated" ->
         HandleEntitlementSummaryUpdated(st, ev, now)
    [] OTHER -> Out(st, 200, {})

\* variant: the catch around constructEvent does not return
POST_NoReturn(st, req, now) == Dispatch(st, req, now)

\* POST: constructEvent throws on a bad signature -> 400 before the switch
POST(st, req, now) ==
  IF ~req.sigOK THEN Out(st, 400, {}) ELSE Dispatch(st, req, now)

\* ------------------------------------------------------------- requests

Req(t, c) == [BlankReq EXCEPT !.type = t, !.customer = c]

ReqsCustomer ==
  {[Req(t, c) EXCEPT !.email = m] :
     t \in {"customer.created", "customer.updated"}, c \in CustomerIds, m \in Emails}

\* invoice.payment_succeeded: subscription invoice (provider answers active,
\* incomplete, or the retrieve throws), invoice without subscription, without customer
ReqsPaymentSucceeded ==
  {[Req("invoice.payment_succeeded", c) EXCEPT
       !.subscription = s, !.subOK = TRUE, !.subStatus = ps] :
     c \in CustomerIds, s \in SubIds, ps \in ProviderStatuses}
  \cup {[Req("invoice.payment_succeeded", c) EXCEPT !.subscription = s, !.subOK = FALSE] :
     c \in CustomerIds, s \in SubIds}
  \cup {Req("invoice.payment_succeeded", c) : c \in CustomerIds}
  \cup {[Req("invoice.payment_succeeded", Null) EXCEPT !.subscription = s] : s \in SubIds}

\* the invoices of invoice.payment_failed: <<subscription, billing_reason, attempt_count>>
FailedInvoices ==
  {<<s, "subscription_create", n>> : s \in SubIds, n \in AttemptCounts}
    \cup {<<s, "subscription_cycle", 1>> : s \in SubIds}
    \cup {<<s, "manual", 1>> : s \in SubIds}
    \cup {<<Null, "subscription_cycle", 1>>, <<Null, "manual", 1>>}

ReqsPaymentFailed ==
  {[Req("invoice.payment_failed", c) EXCEPT
       !.subscription = i[1], !.billing_reason = i[2], !.attempt_count = i[3]] :
     c \in CustomerIds, i \in FailedInvoices}
  \cup {[Req("invoice.payment_failed", c) EXCEPT
       !.subscription = s, !.billing_reason = "subscription_cycle",
       !.attempt_count = 1, !.custOK = FALSE] : c \in CustomerIds, s \in SubIds}
  \cup {[Req("invoice.payment_failed", Null) EXCEPT
       !.subscription = s, !.billing_reason = "subscription_cycle",
       !.attempt_count = 1] : s \in SubIds}

ReqsSubscriptionUpdated ==
  {[Req("customer.subscription.updated", c) EXCEPT
       !.subscription = s, !.status = x[1], !.prev_status = x[2]] :
     c \in CustomerIds, s \in SubIds,
     x \in {<<"active", "past_due">>, <<"active", Undef>>, <<"past_due", "active">>}}

ReqsSubscription(t, status) ==
  {[Req(t, c) EXCEPT !.subscription = s, !.status = status] :
     c \in CustomerIds, s \in SubIds}

ReqsSubscriptionDeleted == ReqsSubscription("customer.subscription.deleted", "canceled")
ReqsSubscriptionPaused == ReqsSubscription("customer.subscription.paused", "paused")
ReqsSubscriptionResumed == ReqsSubscription("customer.subscription.resumed", "active")

ReqsSummary ==
  {[Req("entitlements.active_entitlement_summary.updated", c) EXCEPT
       !.email = m, !.ents = S] : c \in CustomerIds, m \in Emails, S \in SUBSET EntIds}
  \cup {[Req("entitlements.active_entitlement_summary.updated", c) EXCEPT
       !.email = m, !.ents = EntIds, !.custOK = FALSE] : c \in CustomerIds, m \in Emails}

IgnoredTypes ==
  {"payment_intent.succeeded", "payment_intent.payment_failed", "invoice.upcoming",
   "invoice.created", "customer.subscription.created", "charge.succeeded"}

ReqsIgnored == {Req(t, c) : t \in IgnoredTypes, c \in CustomerIds}

\* requests whose signature does not verify (any body can be sent)
ReqsBadSignature ==
  {[r EXCEPT !.sigOK = FALSE] :
     r \in {q \in ReqsCustomer \cup ReqsSummary \cup ReqsPaymentFailed :
              /\ q.custOK
              /\ q.type # "customer.updated"
              /\ q.ents \in {{}, EntIds}
              /\ q.billing_reason \in {Null, "subscription_cycle"}
              /\ q.customer # Null /\ (q.type = "invoice.payment_failed" => q.subscription # Null)}}

Requests ==
  ReqsCustomer \cup ReqsPaymentSucceeded \cup ReqsPaymentFailed
    \cup ReqsSubscriptionUpdated \cup ReqsSubscriptionDeleted
    \cup ReqsSubscriptionPaused \cup ReqsSubscriptionResumed
    \cup ReqsSummary \cup ReqsIgnored \cup ReqsBadSignature

\* ---------------------------------------------------------------- actions

Suspended(st, c) == has(st, c) /\ st[c].suspended = "true"

\* history of the first suspension: recorded when a request makes the flag
\* true for a customer with no recorded suspension, dropped when it is restored
Park(old, new) ==
  LET keep == {c \in DOMAIN parked : ~(Suspended(old, c) /\ new[c].suspended = "false")}
      fresh == {c \in DOMAIN new : /\ c \notin DOMAIN parked
                                   /\ Suspended(new, c) /\ ~Suspended(old, c)}
  IN [c \in keep \cup fresh |->
        IF c \in fresh
        THEN (IF has(old, c) THEN old[c].entitlements ELSE EmptyMap)
        ELSE parked[c]]

\* the provider account before anything was created in it: customers (id ->
\* email), subscriptions (id -> customer, price, status), events sent and not
\* yet received, coupon ids, features (lookup key -> active flags, newest
\* first), promotion codes (code -> active, authorized_email)
InitProv ==
  [customers |-> EmptyMap, nCus |-> 0, subs |-> EmptyMap, nSubs |-> 0,
   queue |-> {}, coupons |-> {}, features |-> EmptyMap, promos |-> EmptyMap]

\* validatedCoupon of the checkout page when no promo code is validated (null);
\* a coupon field the provider leaves null is -1
NoCoupon == [present |-> FALSE, percent_off |-> -1, amount_off |-> -1]

\* no request to another route and no script run yet
BlankRun ==
  [op |-> Null, status |-> 0, email |-> Null, customer |-> Null,
   subscription |-> Null, code |-> Null, created |-> {}, skipped |-> {},
   valid |-> FALSE, ok |-> TRUE, left |-> Null,
   coupon |-> NoCoupon, amount |-> 0, price |-> 0, discount |-> 0]

\* the wipe script not started
InitWipe == [pc |-> "idle", log |-> << >>, cleared |-> FALSE]

\* no cancel request issued
NoCleanup == [asked |-> {}, failed |-> {}]

\* the two storage mutations that may overlap (each called by a webhook handler)
Handlers == {1, 2}

\* no storage mutation under way
InitRace ==
  [base |-> EmptyMap,
   t |-> [h \in Handlers |-> [pc |-> "idle", m |-> Null, data |-> EmptyMap, now |-> 0]]]

Init ==
  /\ store = EmptyMap
  /\ clock = 1
  /\ last = BlankReq
  /\ pre = EmptyMap
  /\ resp = 0
  /\ ret = Undef
  /\ calls = {}
  /\ inflight = {}
  /\ parked = EmptyMap
  /\ prov = InitProv
  /\ run = BlankRun
  /\ wipe = InitWipe
  /\ race = InitRace
  /\ cleanup = NoCleanup

\* one webhook request handled from signature check to response
Process(req) ==
  LET o == POST(store, req, clock)
  IN /\ clock <= MaxEvents
     /\ store' = o.store
     /\ resp' = o.status
     /\ calls' = o.calls
     /\ last' = req
     /\ pre' = store
     /\ clock' = clock + 1
     /\ parked' = Park(store, o.store)
     /\ UNCHANGED <<ret, inflight>>
     /\ UNCHANGED others

CustomerEvent == \E r \in ReqsCustomer : Process(r)
PaymentSucceeded == \E r \in ReqsPaymentSucceeded : Process(r)
PaymentFailed == \E r \in ReqsPaymentFailed : Process(r)
SubscriptionUpdated == \E r \in ReqsSubscriptionUpdated : Process(r)
SubscriptionDeleted == \E r \in ReqsSubscriptionDeleted : Process(r)
SubscriptionPaused == \E r \in ReqsSubscriptionPaused : Process(r)
SubscriptionResumed == \E r \in ReqsSubscriptionResumed : Process(r)
EntitlementSummary == \E r \in ReqsSummary : Process(r)
IgnoredEvent == \E r \in ReqsIgnored : Process(r)
BadSignature == \E r \in ReqsBadSignature : Process(r)

Next ==
  \/ CustomerEvent
  \/ PaymentSucceeded
  \/ PaymentFailed
  \/ SubscriptionUpdated
  \/ SubscriptionDeleted
  \/ SubscriptionPaused
  \/ SubscriptionResumed
  \/ EntitlementSummary
  \/ IgnoredEvent
  \/ BadSignature

Spec == Init /\ [][Next]_vars

\* ------------------------------------------- interleaved summary handler
\* handleEntitlementSummaryUpdated awaits the provider (features.retrieve per
\* entitlement) between saveCustomer and saveCustomerEntitlements; other
\* requests are served in between.

SummaryStart ==
  \E r \in ReqsSummary :
    /\ clock <= MaxEvents
    /\ Cardinality(inflight) < MaxInflight
    /\ r.custOK
    /\ store' = SummarySaveCustomer(store, r, clock)
    /\ inflight' = inflight \cup {r}
    /\ last' = r
    /\ pre' = store
    /\ resp' = 0
    /\ calls' = {"customers.retrieve"}
    /\ clock' = clock + 1
    /\ parked' = Park(store, store')
    /\ UNCHANGED ret
    /\ UNCHANGED others

SummaryFinish ==
  \E r \in inflight :
    /\ store' = SummarySaveEntitlements(store, r, clock)
    /\ inflight' = inflight \ {r}
    /\ last' = r
    /\ pre' = store
    /\ resp' = 200
    /\ calls' = IF r.ents # {} THEN {"entitlements.features.retrieve"} ELSE {}
    /\ clock' = clock + 1
    /\ parked' = Park(store, store')
    /\ UNCHANGED ret
    /\ UNCHANGED others

NextConc ==
  \/ CustomerEvent
  \/ PaymentFailed
  \/ PaymentSucceeded
  \/ EntitlementSummary
  \/ SummaryStart
  \/ SummaryFinish

SpecConc == Init /\ [][NextConc]_vars

\* ------------------------------------------------ direct storage.js calls

Call(name, c, o) ==
  /\ clock <= MaxCalls
  /\ store' = o.store
  /\ ret' = IF o.ret THEN "true" ELSE "false"
  /\ last' = Req(name, c)
  /\ pre' = store
  /\ clock' = clock + 1
  /\ parked' = Park(store, o.store)
  /\ UNCHANGED <<resp, calls, inflight>>
  /\ UNCHANGED others

CallSaveCustomer ==
  \E c \in CustomerIds, m \in Emails :
    /\ clock <= MaxCalls
    /\ store' = saveCustomer(store, c,
                   [stripeCustomerId |-> c, email |-> m, metadata |-> Undef], clock)
    /\ last' = Req("saveCustomer", c)
    /\ pre' = store
    /\ clock' = clock + 1
    /\ parked' = Park(store, store')
    /\ UNCHANGED <<resp, ret, calls, inflight>>
    /\ UNCHANGED others

CallSaveCustomerSubscription ==
  \E c \in CustomerIds, s \in SubIds, x \in {"active", "canceled"} :
    /\ clock <= MaxCalls
    /\ store' = saveCustomerSubscription(store, c,
                   [stripeSubscriptionId |-> s, status |-> x], clock)
    /\ last' = Req("saveCustomerSubscription", c)
    /\ pre' = store
    /\ clock' = clock + 1
    /\ parked' = Park(store, store')
    /\ UNCHANGED <<resp, ret, calls, inflight>>
    /\ UNCHANGED others

CallSaveCustomerEntitlements ==
  \E c \in CustomerIds, S \in SUBSET EntIds :
    /\ clock <= MaxCalls
    /\ store' = saveCustomerEntitlements(store, c, BuildEntitlements(S, clock), clock)
    /\ last' = [Req("saveCustomerEntitlements", c) EXCEPT !.ents = S]
    /\ pre' = store
    /\ clock' = clock + 1
    /\ parked' = Park(store, store')
    /\ UNCHANGED <<resp, ret, calls, inflight>>
    /\ UNCHANGED others

CallSuspend ==
  \E c \in CustomerIds, r \in ReqsPaymentFailed :
    Call("suspendCustomerEntitlements", c,
         suspendCustomerEntitlements(store, c, FailedInfo(r, clock), clock))

CallRestore ==
  \E c \in CustomerIds :
    Call("restoreCustomerEntitlements", c, restoreCustomerEntitlements(store, c, clock))

NextStorage ==
  \/ CallSaveCustomer
  \/ CallSaveCustomerSubscription
  \/ CallSaveCustomerEntitlements
  \/ CallSuspend
  \/ CallRestore

SpecStorage == Init /\ [][NextStorage]_vars

\* ================================================================ claims

IsSummary(r) == r.type = "entitlements.active_entitlement_summary.updated"
IsFailed(r) == r.type = "invoice.payment_failed"
IsSucceeded(r) == r.type = "invoice.payment_succeeded"
NoFeature(st, c) == \A k \in FeatureKeys : ~customerHasFeature(st, c, k)
Populated(m) == DOMAIN m # {}

\* C1: no customer record has both a non-empty entitlements map and a
\* non-empty suspendedEntitlements map, after any sequence of webhook events.
C1_NeverBothPopulated ==
  \A c \in DOMAIN store :
    ~(Populated(store[c].entitlements) /\ Populated(store[c].suspendedEntitlements))

\* C2: an invoice.payment_succeeded for a suspended customer, with the provider
\* reporting the subscription active, clears the suspended flag and puts the
\* parked entitlements back into entitlements.
C2_AutomaticRestoration ==
  (/\ IsSucceeded(last) /\ last.sigOK /\ last.customer # Null
   /\ last.subscription # Null /\ last.subOK /\ last.subStatus = "active"
   /\ Suspended(pre, last.customer))
  => /\ store[last.customer].suspended = "false"
     /\ store[last.customer].entitlements = pre[last.customer].suspendedEntitlements

C4_SuspendedHasNoFeature ==
  \A c \in DOMAIN store : store[c].suspended = "true" => NoFeature(store, c)

\* C5: from the first suspension of a customer until it is restored,
\* suspendedEntitlements equals the entitlements it had at that suspension.
C5_ParkedPreserved ==
  \A c \in DOMAIN parked : store[c].suspendedEntitlements = parked[c]

IsSuspendCall(r) == r.type = "suspendCustomerEntitlements"
IsRestoreCall(r) == r.type = "restoreCustomerEntitlements"

\* C6: suspendCustomerEntitlements on an existing, not suspended customer with
\* a non-empty entitlements map E sets suspended, empties entitlements, puts E
\* in suspendedEntitlements and returns true.
C6_SuspendMovesWholesale ==
  (/\ IsSuspendCall(last) /\ last.customer \in DOMAIN pre
   /\ pre[last.customer].suspended # "true"
   /\ Populated(pre[last.customer].entitlements))
  => /\ store[last.customer].suspended = "true"
     /\ store[last.customer].entitlements = EmptyMap
     /\ store[last.customer].suspendedEntitlements = pre[last.customer].entitlements
     /\ ret = "true"

\* a customer restored earlier (suspended false) with entitlements is suspended again
C6_Witness ==
  /\ IsSuspendCall(last) /\ last.customer \in DOMAIN pre
  /\ pre[last.customer].suspended = "false"
  /\ Populated(pre[last.customer].entitlements)
  /\ store[last.customer].suspendedEntitlements = pre[last.customer].entitlements
  /\ ret = "true"

\* C7: suspendCustomerEntitlements directly followed by
\* restoreCustomerEntitlements, on an existing not suspended customer with
\* entitlements E, yields entitlements = E, suspendedEntitlements = {},
\* suspended = false and suspensionInfo = null.
C7_RoundTrip ==
  [][(/\ IsSuspendCall(last) /\ last.customer \in DOMAIN pre
      /\ pre[last.customer].suspended # "true"
      /\ IsRestoreCall(last') /\ last'.customer = last.customer)
     => /\ store'[last.customer].entitlements = pre[last.customer].entitlements
        /\ store'[last.customer].suspendedEntitlements = EmptyMap
        /\ store'[last.customer].suspended = "false"
        /\ store'[last.customer].suspensionInfo = NoSuspensionInfo]_vars

\* what C8 compares: per customer the suspended flag, the two entitlement
\* maps and the subscription status
Proj(st) ==
  [c \in DOMAIN st |->
     [suspended |-> st[c].suspended, entitlements |-> st[c].entitlements,
      suspendedEntitlements |-> st[c].suspendedEntitlements,
      status |-> st[c].subscription.status]]

\* an entitlements map without the updatedAt stamp of each entitlement
Unstamped(m) == [e \in DOMAIN m |-> [m[e] EXCEPT !.updatedAt = 0]]

ProjUnstamped(st) ==
  [c \in DOMAIN st |->
     [suspended |-> st[c].suspended, entitlements |-> Unstamped(st[c].entitlements),
      suspendedEntitlements |-> Unstamped(st[c].suspendedEntitlements),
      status |-> st[c].subscription.status]]

\* C8 (as claimed): a request that repeats the request processed just before
\* it leaves suspended, entitlements, suspendedEntitlements and the
\* subscription status as they were after the first processing.
C8_Idempotent == [][last' = last => Proj(store') = Proj(store)]_vars

\* C8 (amended): the same, the entitlement maps compared without the
\* updatedAt stamp of each entitlement (the repeated request includes the
\* same provider answers).
C8_IdempotentUpToStamps == [][last' = last => ProjUnstamped(store') = ProjUnstamped(store)]_vars

\* an invoice.payment_failed was delivered twice in a row to a customer with
\* entitlements: the second delivery found it suspended by the first
C8_Witness ==
  /\ IsFailed(last) /\ last.sigOK /\ last.customer \in DOMAIN pre
  /\ pre[last.customer].suspended = "true"
  /\ pre[last.customer].suspensionInfo.suspendedAt = clock - 2
  /\ pre[last.customer].suspensionInfo.lastAttemptAt = 0
  /\ pre[last.customer].suspensionInfo.attemptCount = last.attempt_count
  /\ pre[last.customer].suspensionInfo.billingReason = last.billing_reason
  /\ pre[last.customer].suspensionInfo.subscriptionId = last.subscription
  /\ Populated(pre[last.customer].suspendedEntitlements)
  /\ store[last.customer].suspensionInfo.lastAttemptAt = clock - 1

\* C9: an invoice.payment_failed for a customer whose suspended flag is true
\* changes nothing in the record but suspensionInfo, and keeps
\* suspensionInfo.suspendedAt.
C9_RetryChangesOnlySuspensionInfo ==
  (IsFailed(last) /\ last.customer \in DOMAIN pre /\ pre[last.customer].suspended = "true")
  => /\ store = [pre EXCEPT ![last.customer].suspensionInfo =
                                store[last.customer].suspensionInfo]
     /\ store[last.customer].suspensionInfo.suspendedAt =
          pre[last.customer].suspensionInfo.suspendedAt
     /\ store[last.customer].suspensionInfo \in
          {pre[last.customer].suspensionInfo,
           [FailedInfo(last, clock - 1) EXCEPT
              !.suspendedAt = pre[last.customer].suspensionInfo.suspendedAt,
              !.lastAttemptAt = clock - 1]}

\* a retry arrived some time after the suspension and was recorded
C9_Witness ==
  /\ IsFailed(last) /\ last.sigOK /\ last.customer \in DOMAIN pre
  /\ pre[last.customer].suspended = "true"
  /\ pre[last.customer].suspensionInfo.suspendedAt < clock - 2
  /\ store[last.customer].suspensionInfo.lastAttemptAt = clock - 1
  /\ Populated(store[last.customer].suspendedEntitlements)

\* C10: a request whose signature does not verify is answered 400, leaves the
\* store unchanged and makes no provider API call.
C10_BadSignatureRejected ==
  ~last.sigOK => (resp = 400 /\ store = pre /\ calls = {})

\* a forged entitlement summary for a customer with no entitlements was rejected
C10_Witness ==
  /\ ~last.sigOK /\ IsSummary(last) /\ last.ents # {}
  /\ last.customer \in DOMAIN store
  /\ ~Populated(store[last.customer].entitlements)
  /\ resp = 400

IsCustomerEvent(r) == r.type \in {"customer.created", "customer.updated"}

\* the fields of a record that saveCustomer does not take from its argument
Kept(rec) ==
  [suspended |-> rec.suspended, suspensionInfo |-> rec.suspensionInfo,
   suspendedEntitlements |-> rec.suspendedEntitlements,
   entitlements |-> rec.entitlements, subscription |-> rec.subscription]

\* C17: a customer.created or customer.updated event for a customer already in
\* the store leaves the customer's suspended flag, suspensionInfo,
\* suspendedEntitlements, entitlements and subscription unchanged.
C17_CustomerEventKeepsState ==
  (IsCustomerEvent(last) /\ last.sigOK /\ last.customer \in DOMAIN pre)
  => Kept(store[last.customer]) = Kept(pre[last.customer])

\* ======================================================================
\* The checkout route, the provider account and the wipe script
\* ======================================================================

MaxCreated == 4   \* provider customers and subscriptions created in one behaviour

\* ids the provider hands out, in order
CusNames == <<"cus_1", "cus_2", "cus_3", "cus_4", "cus_5", "cus_6">>
SubNames == <<"sub_1", "sub_2", "sub_3", "sub_4", "sub_5", "sub_6">>

ShopEmails == {"a@x.io", "b@x.io"}
Prices == {"price_A", "price_B"}

\* position of a subscription in the order the provider created them
SubIdx(s) == CHOOSE i \in DOMAIN SubNames : SubNames[i] = s

\* subscriptions.list({customer, status})
SubsOf(pv, c, status) ==
  {s \in DOMAIN pv.subs : pv.subs[s].customer = c /\ pv.subs[s].status = status}

\* an event the provider has sent and the webhook route has not yet received
Ev(t, c, s) == [type |-> t, customer |-> c, subscription |-> s]

\* subscriptions.cancel for each of ids: status canceled, and the provider
\* sends customer.subscription.deleted for each
CancelSubs(pv, ids) ==
  [pv EXCEPT
     !.subs = [s \in DOMAIN pv.subs |->
                 IF s \in ids THEN [pv.subs[s] EXCEPT !.status = "canceled"]
                 ELSE pv.subs[s]],
     !.queue = @ \cup {Ev("customer.subscription.deleted", pv.subs[s].customer, s) :
                        s \in ids}]

\* ------------------------------------------ create-subscription/route.js

\* getCustomerByEmail: the ids of the records find() can return. The store
\* does not keep the insertion order find() follows, so any record with the
\* email.
getCustomerByEmail(st, email) == {c \in DOMAIN st : st[c].email = email}

\* the request body: priceId, planType and email, each possibly missing
Bodies ==
  {[priceId |-> p, planType |-> "monthly", email |-> m] : p \in Prices, m \in ShopEmails}
  \cup {[priceId |-> Null, planType |-> "monthly", email |-> m] : m \in ShopEmails}

\* what the provider answers during one request: the API call that throws
\* (if any), whether the payment intent of an incomplete subscription still
\* requires a payment method, whether the new subscription is free (active at
\* once), whether a client secret comes with it
ApiOK == [throws |-> Null, piOpen |-> TRUE, free |-> FALSE, secret |-> TRUE]
ApiAnswers ==
  {ApiOK,
   [ApiOK EXCEPT !.piOpen = FALSE],
   [ApiOK EXCEPT !.free = TRUE],
   [ApiOK EXCEPT !.secret = FALSE],
   [ApiOK EXCEPT !.throws = "customers.retrieve"],
   [ApiOK EXCEPT !.throws = "customers.create"],
   [ApiOK EXCEPT !.throws = "subscriptions.create"]}

\* variant: the route saves a local record for the customer it created
Checked_SavesCustomer(st, pv, status, body, c, s, created, resumed) ==
  [store |-> IF created # {}
             THEN saveCustomer(st, c, [stripeCustomerId |-> c, email |-> body.email,
                                       metadata |-> Undef], 0)
             ELSE st,
   prov |-> pv,
   run |-> [BlankRun EXCEPT !.op = "create-subscription", !.status = status,
              !.email = body.email, !.customer = c, !.subscription = s,
              !.created = created, !.ok = resumed]]

\* a response of create-subscription with what the request did at the
\* provider; the route imports getCustomerByEmail only and writes nothing to
\* the store
Checked(st, pv, status, body, c, s, created, resumed) ==
  [store |-> st,
   prov |-> pv,
   run |-> [BlankRun EXCEPT !.op = "create-subscription", !.status = status,
              !.email = body.email, !.customer = c, !.subscription = s,
              !.created = created, !.ok = resumed]]

\* stripe.subscriptions.create and the responses that follow it (113-208)
CreateSubscription(st, pv, body, c, created, api) ==
  IF api.throws = "subscriptions.create" \/ c \notin DOMAIN pv.customers
  THEN Checked(st, pv, 500, body, c, Null, created, FALSE)
  ELSE LET s == SubNames[pv.nSubs + 1]
           status == IF api.free THEN "active" ELSE "incomplete"
           pv1 == [pv EXCEPT
                     !.nSubs = @ + 1,
                     !.subs = put(@, s, [customer |-> c, price |-> body.priceId,
                                          status |-> status]),
                     !.queue = IF api.free
                               THEN @ \cup {Ev("invoice.payment_succeeded", c, s)}
                               ELSE @]
       IN IF api.free THEN Checked(st, pv1, 200, body, c, s, created, FALSE)
          ELSE IF ~api.secret THEN Checked(st, pv1, 500, body, c, s, created, FALSE)
          ELSE Checked(st, pv1, 200, body, c, s, created, FALSE)

\* variant: the customer is created at the provider whether or not a local
\* record matched
createSubscription_AlwaysCreate(st, pv, body, ex, api) ==
  IF body.priceId = Null \/ body.planType = Null \/ body.email = Null
  THEN Checked(st, pv, 400, body, Null, Null, {}, FALSE)
  ELSE LET c == CusNames[pv.nCus + 1]
           pv1 == [pv EXCEPT !.nCus = @ + 1, !.customers = put(@, c, body.email),
                             !.queue = @ \cup {Ev("customer.created", c, Null)}]
       IN CreateSubscription(st, pv1, body, c, {c}, api)

\* POST of create-subscription; ex is the record getCustomerByEmail returned
\* (Null for none)
createSubscription(st, pv, body, ex, api) ==
  IF body.priceId = Null \/ body.planType = Null \/ body.email = Null
  THEN Checked(st, pv, 400, body, Null, Null, {}, FALSE)
  ELSE IF ex # Null /\ st[ex].stripeCustomerId # Null
  THEN LET c == st[ex].stripeCustomerId
           matching == {s \in SubsOf(pv, c, "incomplete") : pv.subs[s].price = body.priceId}
           \* subscriptions.list answers newest first; find() takes the first
           matchingIncomplete ==
             CHOOSE s \in matching : \A t \in matching : SubIdx(t) <= SubIdx(s)
       IN IF api.throws = "customers.retrieve"
          THEN Checked(st, pv, 500, body, Null, Null, {}, FALSE)
          ELSE IF SubsOf(pv, c, "active") # {}
          THEN Checked(st, pv, 409, body, c, Null, {}, FALSE)
          ELSE IF matching # {} /\ api.piOpen
          THEN Checked(st, pv, 200, body, c, matchingIncomplete, {}, TRUE)
          ELSE IF SubsOf(pv, c, "past_due") # {}
          THEN Checked(st, pv, 409, body, c, Null, {}, FALSE)
          ELSE CreateSubscription(st, pv, body, c, {}, api)
  ELSE IF api.throws = "customers.create"
  THEN Checked(st, pv, 500, body, Null, Null, {}, FALSE)
  ELSE LET c == CusNames[pv.nCus + 1]
           pv1 == [pv EXCEPT !.nCus = @ + 1, !.customers = put(@, c, body.email),
                             !.queue = @ \cup {Ev("customer.created", c, Null)}]
       IN CreateSubscription(st, pv1, body, c, {c}, api)

\* --------------------------------------------------- provider and webhooks

\* the request the webhook route receives for a provider event, with what the
\* provider answers to the handler's API calls at the time of delivery
ToReq(pv, ev) ==
  LET known == ev.customer \in DOMAIN pv.customers
  IN [BlankReq EXCEPT
        !.type = ev.type, !.customer = ev.customer,
        !.subscription = ev.subscription,
        !.email = IF ev.type = "customer.created"
                  THEN (IF known THEN pv.customers[ev.customer] ELSE Undef)
                  ELSE Null,
        !.subStatus = IF ev.subscription # Null THEN pv.subs[ev.subscription].status
                      ELSE Null]

\* variant: the subscription that was paid is not skipped
CleanupTargets_All(pv, req) ==
  IF req.type = "invoice.payment_succeeded" /\ req.sigOK /\ req.subscription # Null
     /\ req.customer # Null /\ req.subOK /\ req.listOK
  THEN SubsOf(pv, req.customer, "incomplete")
  ELSE {}

\* the subscriptions the cleanup after a successful payment asks the provider
\* to cancel: every incomplete subscription of the customer that
\* subscriptions.list returns but the one that was paid; none when the list
\* call throws (listOK false) or the case does not get there
CleanupTargets(pv, req) ==
  IF req.type = "invoice.payment_succeeded" /\ req.sigOK /\ req.subscription # Null
     /\ req.customer # Null /\ req.subOK /\ req.listOK
  THEN SubsOf(pv, req.customer, "incomplete") \ {req.subscription}
  ELSE {}

\* a request to create-subscription with one of the bodies and one of the
\* provider's answers, made while the provider holds at most `most` objects
CheckoutOf(bodies, answers, most) ==
  /\ prov.nCus + prov.nSubs <= most
  /\ \E body \in bodies, api \in answers :
       \E ex \in (IF getCustomerByEmail(store, body.email) = {} THEN {Null}
                  ELSE getCustomerByEmail(store, body.email)) :
         LET o == createSubscription(store, prov, body, ex, api)
         IN /\ store' = o.store
            /\ prov' = o.prov
            /\ run' = o.run
  /\ UNCHANGED <<clock, last, pre, resp, ret, calls, inflight, cleanup, race, parked, wipe>>

\* a request to create-subscription, which creates at most a customer and a
\* subscription
Checkout == CheckoutOf(Bodies, ApiAnswers, MaxCreated - 2)

\* the customer pays an incomplete subscription: the provider sends
\* invoice.payment_succeeded, and the subscription becomes active then or
\* (settled false) at a later payment step, so that the route can find it
\* incomplete still when it handles the event
Pay(s, settled) ==
  /\ s \in DOMAIN prov.subs /\ prov.subs[s].status = "incomplete"
  /\ prov' = [prov EXCEPT
       !.subs[s].status = IF settled THEN "active" ELSE "incomplete",
       !.queue = @ \cup {Ev("invoice.payment_succeeded", prov.subs[s].customer, s)}]
  /\ UNCHANGED <<store, clock, last, pre, resp, ret, calls, inflight, cleanup, race, parked, wipe, run>>

\* the webhook route receives one of the provider's events, in any order;
\* listOK: the cleanup's subscriptions.list does not throw; failing: the
\* subscriptions whose cancel throws (each cancel is in its own try/catch)
Deliver(ev, listOK) ==
  LET req == [ToReq(prov, ev) EXCEPT !.listOK = listOK]
      o == POST(store, req, clock)
  IN /\ clock <= MaxEvents
     /\ ev \in prov.queue
     /\ store' = o.store
     /\ resp' = o.status
     /\ calls' = o.calls
     /\ last' = req
     /\ pre' = store
     /\ clock' = clock + 1
     /\ parked' = Park(store, o.store)
     /\ \E failing \in SUBSET CleanupTargets(prov, req) :
          /\ cleanup' = [asked |-> CleanupTargets(prov, req), failed |-> failing]
          /\ prov' = CancelSubs([prov EXCEPT !.queue = @ \ {ev}],
                                CleanupTargets(prov, req) \ failing)
     /\ UNCHANGED <<run, ret, inflight, race, wipe>>

\* ------------------------------------------------------ scripts/wipe.mjs

\* the steps of wipeStripeEnvironment in the order of the source
WipeOrder == <<"clean", "subscriptions", "customers", "promos", "products", "features", "local">>

\* the wipe script moves on: step done is logged, the script is at pc next
WipeTo(done, ok, next) ==
  wipe' = [wipe EXCEPT !.pc = next, !.log = Append(@, [step |-> done, ok |-> ok])]

\* the script is started (once in a behaviour); without STRIPE_SECRET_KEY it
\* throws before step 1 and exits with status 1
WipeStart ==
  /\ wipe.pc = "idle"
  /\ \E key \in BOOLEAN : wipe' = [wipe EXCEPT !.pc = IF key THEN "clean" ELSE "failed"]
  /\ UNCHANGED <<store, clock, last, pre, resp, ret, calls, inflight, cleanup, race, parked, prov, run>>

\* step 1: execSync of clean.mjs, which cancels the incomplete subscriptions;
\* a failure is caught and the wipe continues
WipeClean ==
  /\ wipe.pc = "clean"
  /\ \E ok \in BOOLEAN :
       /\ prov' = IF ok THEN CancelSubs(prov, {s \in DOMAIN prov.subs :
                                                  prov.subs[s].status = "incomplete"})
                  ELSE prov
       /\ WipeTo("clean", ok, "subscriptions")
  /\ UNCHANGED <<store, clock, last, pre, resp, ret, calls, inflight, cleanup, race, parked, run>>

\* step 2: cancelAllActiveSubscriptions; a throwing list call ends the wipe
WipeCancelSubscriptions ==
  /\ wipe.pc = "subscriptions"
  /\ \E ok \in BOOLEAN :
       /\ prov' = IF ok THEN CancelSubs(prov, {s \in DOMAIN prov.subs :
                                   prov.subs[s].status \in {"active", "past_due"}})
                  ELSE prov
       /\ WipeTo("subscriptions", ok, IF ok THEN "customers" ELSE "failed")
  /\ UNCHANGED <<store, clock, last, pre, resp, ret, calls, inflight, cleanup, race, parked, run>>

\* step 3: deleteAllCustomers; the provider cancels what a deleted customer
\* still subscribes to; a throwing list call ends the wipe
WipeDeleteCustomers ==
  /\ wipe.pc = "customers"
  /\ \E ok \in BOOLEAN :
       /\ prov' = IF ok
                  THEN [CancelSubs(prov, {s \in DOMAIN prov.subs :
                                            prov.subs[s].status # "canceled"})
                          EXCEPT !.customers = EmptyMap]
                  ELSE prov
       /\ WipeTo("customers", ok, IF ok THEN "promos" ELSE "failed")
  /\ UNCHANGED <<store, clock, last, pre, resp, ret, calls, inflight, cleanup, race, parked, run>>

\* step 4: cleanupPromotionCodesAndCoupons, all of it in one try/catch
WipePromosCoupons ==
  /\ wipe.pc = "promos"
  /\ \E ok \in BOOLEAN :
       /\ prov' = IF ok
                  THEN [prov EXCEPT
                          !.promos = [c \in DOMAIN prov.promos |->
                                        [prov.promos[c] EXCEPT !.active = FALSE]],
                          !.coupons = {}]
                  ELSE prov
       /\ WipeTo("promos", ok, "products")
  /\ UNCHANGED <<store, clock, last, pre, resp, ret, calls, inflight, cleanup, race, parked, run>>

\* step 5: deleteAllProducts; a throwing list call ends the wipe
WipeProducts ==
  /\ wipe.pc = "products"
  /\ \E ok \in BOOLEAN : WipeTo("products", ok, IF ok THEN "features" ELSE "failed")
  /\ UNCHANGED <<store, clock, last, pre, resp, ret, calls, inflight, cleanup, race, parked, prov, run>>

\* step 6: deleteAllFeatures archives every feature, in a try/catch
WipeFeatures ==
  /\ wipe.pc = "features"
  /\ \E ok \in BOOLEAN :
       /\ prov' = IF ok
                  THEN [prov EXCEPT !.features =
                          [k \in DOMAIN prov.features |->
                             [i \in DOMAIN prov.features[k] |-> FALSE]]]
                  ELSE prov
       /\ WipeTo("features", ok, "local")
  /\ UNCHANGED <<store, clock, last, pre, resp, ret, calls, inflight, cleanup, race, parked, run>>

\* variant: a failed write of the data file ends the script with status 1
clearLocalData_Throws(st, ok) ==
  IF ok THEN [store |-> EmptyMap, pc |-> "finished", cleared |-> TRUE]
  ELSE [store |-> st, pc |-> "failed", cleared |-> FALSE]

\* clearLocalData: the data file is overwritten with an empty customers map;
\* a failed write is caught and logged
clearLocalData(st, ok) ==
  IF ok THEN [store |-> EmptyMap, pc |-> "finished", cleared |-> TRUE]
  ELSE [store |-> st, pc |-> "finished", cleared |-> FALSE]

\* step 7, after which the script prints that the wipe is finished
WipeClearLocalData ==
  /\ wipe.pc = "local"
  /\ \E ok \in BOOLEAN :
       LET o == clearLocalData(store, ok)
       IN /\ store' = o.store
          /\ wipe' = [pc |-> o.pc,
                       log |-> Append(wipe.log, [step |-> "local", ok |-> ok]),
                       cleared |-> o.cleared]
  /\ UNCHANGED <<clock, last, pre, resp, ret, calls, inflight, cleanup, race, parked, prov, run>>

\* the shop with a provider that settles a payment at once and answers the
\* cleanup's list call
NextShop ==
  \/ Checkout
  \/ \E s \in DOMAIN prov.subs : Pay(s, TRUE)
  \/ \E ev \in prov.queue : Deliver(ev, TRUE)

SpecShop == Init /\ [][NextShop]_vars

\* one customer who starts a checkout when the route has handled the events
\* sent so far, with a provider that may settle a payment late and whose list
\* and cancel calls may throw
CleanupBodies == {b \in Bodies : b.email = "a@x.io" /\ b.priceId = "price_A"}
CleanupAnswers == {ApiOK, [ApiOK EXCEPT !.piOpen = FALSE]}

NextCleanup ==
  \/ prov.queue = {} /\ CheckoutOf(CleanupBodies, CleanupAnswers, MaxCreated - 1)
  \/ \E s \in DOMAIN prov.subs, settled \in BOOLEAN : Pay(s, settled)
  \/ \E ev \in prov.queue :
       \E listOK \in (IF ev.type = "invoice.payment_succeeded" THEN BOOLEAN ELSE {TRUE}) :
         Deliver(ev, listOK)

SpecCleanup == Init /\ [][NextCleanup]_vars

NextWipe ==
  \/ CustomerEvent
  \/ EntitlementSummary
  \/ WipeStart
  \/ WipeClean
  \/ WipeCancelSubscriptions
  \/ WipeDeleteCustomers
  \/ WipePromosCoupons
  \/ WipeProducts
  \/ WipeFeatures
  \/ WipeClearLocalData

SpecWipe == Init /\ [][NextWipe]_vars

\* ======================================================================
\* Claims C11 - C20
\* ======================================================================

IsCheckout(r) == r.op = "create-subscription"
HasEmail(st, m) == \E c \in DOMAIN st : st[c].email = m

\* a request to create-subscription was answered in this step
CheckoutStep == run' # run /\ IsCheckout(run')

\* C11 (as claimed): after create-subscription has answered 200 for an email
\* that had no record in the local store, the store holds a record with that
\* email, no webhook having been processed in between.
C11_RecordAfterCheckout ==
  [][(CheckoutStep /\ run'.status = 200 /\ ~HasEmail(store, run'.email))
       => HasEmail(store', run'.email)]_vars

\* C11 (amended): create-subscription leaves the local store as it was; after
\* it answered 200 for an email that had no record, a provider customer with
\* that email exists, its customer.created event is on its way to the webhook
\* route, and the store still has no record with that email.
C11_CheckoutLeavesStore ==
  [][CheckoutStep
       => /\ store' = store
          /\ (run'.status = 200 /\ ~HasEmail(store, run'.email))
               => /\ run'.customer \in DOMAIN prov'.customers \ DOMAIN prov.customers
                  /\ prov'.customers[run'.customer] = run'.email
                  /\ Ev("customer.created", run'.customer, Null) \in prov'.queue
                  /\ ~HasEmail(store', run'.email)]_vars

\* a first checkout was answered 200 with a payment to make, and the store is
\* still empty: the customer exists at the provider only
C11_Witness ==
  /\ IsCheckout(run) /\ run.status = 200 /\ run.created = {run.customer}
  /\ run.subscription \in DOMAIN prov.subs
  /\ prov.subs[run.subscription].status = "incomplete"
  /\ prov.customers = [c \in {run.customer} |-> run.email]
  /\ Ev("customer.created", run.customer, Null) \in prov.queue
  /\ store = EmptyMap

Matching(st, m) == {st[c].stripeCustomerId : c \in getCustomerByEmail(st, m)}

\* C13: when the local store holds a record with the request's email,
\* create-subscription creates no provider customer, and every subscription
\* it creates or resumes belongs to the provider customer of such a record; it
\* creates a provider customer only when no record has the email.
C13_MatchedByEmail ==
  [][CheckoutStep
       => /\ Matching(store, run'.email) # {}
               => /\ prov'.customers = prov.customers /\ run'.created = {}
                  /\ \A s \in (DOMAIN prov'.subs \ DOMAIN prov.subs)
                               \cup ({run'.subscription} \ {Null}) :
                       prov'.subs[s].customer \in Matching(store, run'.email)
          /\ prov'.customers # prov.customers => Matching(store, run'.email) = {}]_vars

\* a customer with a local record checked out again with another price: the
\* new subscription went to the one provider customer there is
C13_Witness ==
  /\ IsCheckout(run) /\ run.status = 200 /\ run.created = {} /\ ~run.ok
  /\ run.customer \in DOMAIN store /\ store[run.customer].email = run.email
  /\ DOMAIN prov.customers = {run.customer}
  /\ DOMAIN prov.subs = {"sub_1", "sub_2"}
  /\ \A s \in DOMAIN prov.subs : prov.subs[s].customer = run.customer

\* the steps the wipe script has run so far
WipeSteps == [i \in DOMAIN wipe.log |-> wipe.log[i].step]

\* the wipe script prints that the wipe is finished in this step
WipeFinishes == wipe.pc = "local" /\ wipe'.pc = "finished"

PromoCodes == {"BETA_ALICE_2024", "BETA_BOB_2024"}
PromoEmails == {"beta1@example.com", "Beta1@Example.com", "beta2@example.com"}

\* String.prototype.toLowerCase on the addresses above
toLowerCase(m) == IF m = "Beta1@Example.com" THEN "beta1@example.com" ELSE m

\* stripe.promotionCodes.list({code, active: true, limit: 1}): the provider
\* keeps the codes of active promotion codes unique
ListActivePromos(pv, code) ==
  {c \in DOMAIN pv.promos : c = code /\ pv.promos[c].active}

\* a response of validate-promo
Validated(body, status, valid, answered) ==
  [BlankRun EXCEPT !.op = "validate-promo", !.status = status, !.valid = valid,
                   !.code = body.promoCode, !.email = body.email, !.ok = answered]

\* variant: the addresses are compared as they are written
validatePromo_CaseSensitive(pv, body, listOK) ==
  IF body.promoCode = Null \/ body.email = Null
  THEN Validated(body, 400, FALSE, TRUE)
  ELSE IF ~listOK THEN Validated(body, 500, FALSE, FALSE)
  ELSE IF ListActivePromos(pv, body.promoCode) = {}
  THEN Validated(body, 200, FALSE, TRUE)
  ELSE LET authorizedEmail == pv.promos[body.promoCode].authorized
       IN IF authorizedEmail = Null THEN Validated(body, 200, TRUE, TRUE)
          ELSE IF authorizedEmail # body.email
          THEN Validated(body, 200, FALSE, TRUE)
          ELSE Validated(body, 200, TRUE, TRUE)

\* POST of validate-promo; listOK: stripe.promotionCodes.list does not throw
validatePromo(pv, body, listOK) ==
  IF body.promoCode = Null \/ body.email = Null
  THEN Validated(body, 400, FALSE, TRUE)
  ELSE IF ~listOK THEN Validated(body, 500, FALSE, FALSE)
  ELSE IF ListActivePromos(pv, body.promoCode) = {}
  THEN Validated(body, 200, FALSE, TRUE)
  ELSE LET authorizedEmail == pv.promos[body.promoCode].authorized
       IN IF authorizedEmail = Null THEN Validated(body, 200, TRUE, TRUE)
          ELSE IF toLowerCase(authorizedEmail) # toLowerCase(body.email)
          THEN Validated(body, 200, FALSE, TRUE)
          ELSE Validated(body, 200, TRUE, TRUE)

\* a promotion code is created: by create-promos with authorized_email
\* metadata, or in the provider's dashboard without it; the provider refuses
\* a code that an active promotion code has
CreatePromo(code, authorized) ==
  /\ ListActivePromos(prov, code) = {}
  /\ prov' = [prov EXCEPT !.promos = put(@, code, [active |-> TRUE,
                                                    authorized |-> authorized])]
  /\ UNCHANGED <<store, clock, last, pre, resp, ret, calls, inflight, cleanup, race, parked, run, wipe>>

\* a promotion code is archived (as the wipe script does for every active one)
ArchivePromo(code) ==
  /\ ListActivePromos(prov, code) # {}
  /\ prov' = [prov EXCEPT !.promos[code].active = FALSE]
  /\ UNCHANGED <<store, clock, last, pre, resp, ret, calls, inflight, cleanup, race, parked, run, wipe>>

\* a request to validate-promo
ValidatePromo ==
  /\ \E code \in PromoCodes \cup {Null}, m \in PromoEmails \cup {Null}, listOK \in BOOLEAN :
       run' = validatePromo(prov, [promoCode |-> code, email |-> m], listOK)
  /\ UNCHANGED <<store, clock, last, pre, resp, ret, calls, inflight, cleanup, race, parked, prov, wipe>>

NextPromo ==
  \/ \E code \in PromoCodes, m \in PromoEmails \cup {Null} : CreatePromo(code, m)
  \/ \E code \in PromoCodes : ArchivePromo(code)
  \/ ValidatePromo

SpecPromo == Init /\ [][NextPromo]_vars

\* a request to validate-promo was answered in this step
ValidateStep == run' # run /\ run'.op = "validate-promo"

\* an active promotion code with the code exists that is open to everyone or
\* authorized for the address, letter case aside
Allowed(pv, code, m) ==
  \E c \in DOMAIN pv.promos :
    /\ c = code /\ pv.promos[c].active
    /\ \/ pv.promos[c].authorized = Null
       \/ toLowerCase(pv.promos[c].authorized) = toLowerCase(m)

\* C14: for a request with a promoCode and an email that the provider answers,
\* validate-promo returns valid = true exactly when an active promotion code
\* with that code exists that has no authorized_email or whose
\* authorized_email is the email, letter case aside; it never returns valid =
\* true otherwise, and answers 400 when promoCode or email is missing. (When
\* the provider's list call throws, the answer is valid = false with 500.)
C14_ValidExactlyWhenAllowed ==
  [][ValidateStep
       => /\ (run'.code = Null \/ run'.email = Null)
               => (run'.status = 400 /\ ~run'.valid)
          /\ run'.valid
               => (run'.code # Null /\ run'.email # Null
                   /\ Allowed(prov, run'.code, run'.email))
          /\ (run'.code # Null /\ run'.email # Null /\ run'.ok)
               => (run'.valid <=> Allowed(prov, run'.code, run'.email))
          /\ ~run'.ok => (run'.status = 500 /\ ~run'.valid)]_vars

\* a code authorized for an address was accepted for the same address written
\* with other letter case
C14_Witness ==
  /\ run.op = "validate-promo" /\ run.valid /\ run.status = 200
  /\ run.code \in DOMAIN prov.promos /\ prov.promos[run.code].active
  /\ prov.promos[run.code].authorized # Null
  /\ prov.promos[run.code].authorized # run.email

\* ======================================================================
\* The set-up scripts: create-coupons.mjs and create-features.mjs
\* ======================================================================

\* ids of COUPONS_CONFIG, in order
COUPONS_CONFIG == <<"beta-unlimited-access">>

\* lookup keys of FEATURES_CONFIG, in order
FEATURES_CONFIG ==
  <<"single_premium_server", "extended_limits", "priority_support",
    "credit_shoutout", "translation_commands", "ai_integration",
    "feature_suggestions", "custom_bot_name", "personal_support",
    "three_premium_servers">>

\* the entries of FEATURES_CONFIG that the model runs the script with
ConfigLen == 3
Configured == SubSeq(FEATURES_CONFIG, 1, ConfigLen)

\* limit of entitlements.features.list in create-features
ListLimit == 10

\* the provider call that throws in a run of a script: the check or the
\* create of the entry at an index of the configuration, or none (at = 0)
NoFault == [at |-> 0, call |-> "none"]
Faults(config) ==
  {NoFault} \cup [at : 1..Len(config), call : {"check", "create"}]

\* the elements of a sequence
Range(seq) == {seq[i] : i \in DOMAIN seq}

\* the active flags of the provider's features with a lookup key, newest first
FeaturesOf(pv, key) ==
  IF key \in DOMAIN pv.features THEN pv.features[key] ELSE << >>

\* stripe.entitlements.features.list({lookup_key, limit}): the newest features
\* with the key, at most limit of them
ListFeatures(pv, key, limit) ==
  LET all == FeaturesOf(pv, key)
  IN SubSeq(all, 1, IF Len(all) < limit THEN Len(all) ELSE limit)

\* what a run of a script leaves: the provider state, the created and the
\* skipped entries, whether it completed
Ran(op, pv, created, skipped, completed) ==
  [prov |-> pv,
   run |-> [BlankRun EXCEPT !.op = op, !.created = created, !.skipped = skipped,
                            !.ok = completed,
                            !.left = [coupons |-> pv.coupons, features |-> pv.features]]]

\* the loop of createCoupons from entry i on
RECURSIVE CouponsFrom(_, _, _, _, _)
CouponsFrom(pv, i, created, skipped, fault) ==
  IF i > Len(COUPONS_CONFIG) THEN Ran("create-coupons", pv, created, skipped, TRUE)
  ELSE LET id == COUPONS_CONFIG[i]
       IN IF fault = [at |-> i, call |-> "check"]
          THEN Ran("create-coupons", pv, created, skipped, FALSE)
          ELSE IF id \in pv.coupons
          THEN CouponsFrom(pv, i + 1, created, skipped \cup {id}, fault)
          ELSE IF fault = [at |-> i, call |-> "create"]
          THEN Ran("create-coupons", pv, created, skipped, FALSE)
          ELSE CouponsFrom([pv EXCEPT !.coupons = @ \cup {id}], i + 1,
                           created \cup {id}, skipped, fault)

createCoupons(pv, fault) == CouponsFrom(pv, 1, {}, {}, fault)

\* variant of the loop: an entry is created whether an active feature with
\* its key exists or not
RECURSIVE FeaturesFrom_NoCheck(_, _, _, _, _)
FeaturesFrom_NoCheck(pv, i, created, skipped, fault) ==
  IF i > Len(Configured) THEN Ran("create-features", pv, created, skipped, TRUE)
  ELSE LET key == Configured[i]
       IN IF fault = [at |-> i, call |-> "check"]
          THEN Ran("create-features", pv, created, skipped, FALSE)
          ELSE IF fault = [at |-> i, call |-> "create"]
          THEN Ran("create-features", pv, created, skipped, FALSE)
          ELSE FeaturesFrom_NoCheck(
                 [pv EXCEPT !.features =
                    put(@, key, <<TRUE>> \o FeaturesOf(pv, key))],
                 i + 1, created \cup {key}, skipped, fault)

\* the loop of createFeatures from entry i on; a new feature is the newest of
\* its key
RECURSIVE FeaturesFrom(_, _, _, _, _)
FeaturesFrom(pv, i, created, skipped, fault) ==
  IF i > Len(Configured) THEN Ran("create-features", pv, created, skipped, TRUE)
  ELSE LET key == Configured[i]
       IN IF fault = [at |-> i, call |-> "check"]
          THEN Ran("create-features", pv, created, skipped, FALSE)
          ELSE IF TRUE \in Range(ListFeatures(pv, key, ListLimit))
          THEN FeaturesFrom(pv, i + 1, created, skipped \cup {key}, fault)
          ELSE IF fault = [at |-> i, call |-> "create"]
          THEN Ran("create-features", pv, created, skipped, FALSE)
          ELSE FeaturesFrom(
                 [pv EXCEPT !.features =
                    put(@, key, <<TRUE>> \o FeaturesOf(pv, key))],
                 i + 1, created \cup {key}, skipped, fault)

createFeatures(pv, fault) == FeaturesFrom(pv, 1, {}, {}, fault)

\* a run of create-coupons.mjs
RunCreateCoupons ==
  /\ \E fault \in Faults(COUPONS_CONFIG) :
       LET o == createCoupons(prov, fault)
       IN prov' = o.prov /\ run' = o.run
  /\ UNCHANGED <<store, clock, last, pre, resp, ret, calls, inflight, cleanup, race, parked, wipe>>

\* a run of create-features.mjs
RunCreateFeatures ==
  /\ \E fault \in Faults(Configured) :
       LET o == createFeatures(prov, fault)
       IN prov' = o.prov /\ run' = o.run
  /\ UNCHANGED <<store, clock, last, pre, resp, ret, calls, inflight, cleanup, race, parked, wipe>>

NextScripts ==
  \/ RunCreateCoupons
  \/ RunCreateFeatures
  \/ WipeStart
  \/ WipeClean
  \/ WipeCancelSubscriptions
  \/ WipeDeleteCustomers
  \/ WipePromosCoupons
  \/ WipeProducts
  \/ WipeFeatures
  \/ WipeClearLocalData

SpecScripts == Init /\ [][NextScripts]_vars

\* the provider's coupons and features are as the last run of the script left
\* them, and that run completed
LeftBySuccessfulRun(op) ==
  /\ run.op = op /\ run.ok
  /\ run.left = [coupons |-> prov.coupons, features |-> prov.features]

\* the lookup keys that have an active feature
ActiveFeatures(pv) ==
  {k \in DOMAIN pv.features : TRUE \in Range(pv.features[k])}

\* C15: a run of create-coupons (create-features) against the provider state
\* left by a run of the same script that completed creates no coupon
\* (feature), skips every configured entry when it completes, and leaves the
\* coupons and the features as they were; a run that a throwing provider call
\* cuts short creates nothing either.
C15_RerunCreatesNothing ==
  /\ LeftBySuccessfulRun("create-coupons")
       => \A fault \in Faults(COUPONS_CONFIG) :
            LET o == createCoupons(prov, fault)
            IN /\ o.run.created = {}
               /\ o.prov = prov
               /\ o.run.ok => o.run.skipped = Range(COUPONS_CONFIG)
  /\ LeftBySuccessfulRun("create-features")
       => \A fault \in Faults(Configured) :
            LET o == createFeatures(prov, fault)
            IN /\ o.run.created = {}
               /\ o.prov = prov
               /\ ActiveFeatures(o.prov) = ActiveFeatures(prov)
               /\ o.run.ok => o.run.skipped = Range(Configured)

\* create-features ran a second time after a run that completed: it created
\* nothing and skipped every entry; a wipe had archived the features of an
\* earlier run, and the coupon exists
C15_Witness ==
  /\ LeftBySuccessfulRun("create-features")
  /\ run.created = {} /\ run.skipped = Range(Configured)
  /\ \A k \in Range(Configured) : prov.features[k] = <<TRUE, FALSE>>
  /\ prov.coupons = Range(COUPONS_CONFIG)

\* C19: for an email, the checkout flow creates at most one provider customer,
\* and the local store holds at most one record with the email, however many
\* create-subscription requests carry it and whether or not the
\* customer.created event of an earlier request has been processed.
C19_OneCustomerPerEmail ==
  /\ \A c1, c2 \in DOMAIN prov.customers :
       prov.customers[c1] = prov.customers[c2] => c1 = c2
  /\ \A m \in ShopEmails : Cardinality(getCustomerByEmail(store, m)) <= 1

\* C20: a customer.subscription.deleted event for subscription X leaves the
\* local subscription of the customer as it was unless that refers to X or is
\* empty; the deletions the cleanup after a successful payment causes do not
\* replace the recorded active subscription by a canceled one.
C20_DeletedOnlyOwnSubscription ==
  (/\ last.type = "customer.subscription.deleted"
   /\ last.customer \in DOMAIN pre
   /\ last.customer \in DOMAIN store
   /\ pre[last.customer].subscription.stripeSubscriptionId \notin {Null, last.subscription})
    => store[last.customer].subscription = pre[last.customer].subscription

\* ======================================================================
\* Overlapping storage mutations: readData ... writeData in storage.js
\* ======================================================================

MaxSeeds == 1       \* storage mutations that run alone before the overlapping ones

RaceCustomers == {"cus_1", "cus_2"}

\* the storage mutations webhook handlers call, with their arguments
Mutations ==
  [op : {"saveCustomer", "saveCustomerSubscription", "saveCustomerEntitlements",
         "suspendCustomerEntitlements"},
   id : RaceCustomers]

\* data.customers after the mutation changed what readData returned
Mutate(st, m, now) ==
  CASE m.op = "saveCustomer" ->
         saveCustomer(st, m.id, [stripeCustomerId |-> m.id, email |-> "a@x.io",
                                 metadata |-> Undef], now)
    [] m.op = "saveCustomerSubscription" ->
         saveCustomerSubscription(st, m.id, [stripeSubscriptionId |-> "sub_1",
                                             status |-> "active"], now)
    [] m.op = "saveCustomerEntitlements" ->
         saveCustomerEntitlements(st, m.id, BuildEntitlements({"ent_1"}, now), now)
    [] m.op = "suspendCustomerEntitlements" ->
         suspendCustomerEntitlements(st, m.id,
            FailedInfo([Req("invoice.payment_failed", m.id) EXCEPT
                          !.subscription = "sub_1",
                          !.billing_reason = "subscription_cycle",
                          !.attempt_count = 1], now), now).store

\* the mutation reaches writeData: saveCustomer always, the others return
\* before it when the customer is not in what they read
Writes(st, m) == m.op = "saveCustomer" \/ has(st, m.id)

\* a mutation runs alone, from readData to writeData, before any other starts
RaceSeed ==
  /\ clock <= MaxSeeds
  /\ \A h \in Handlers : race.t[h].pc = "idle"
  /\ \E m \in Mutations : store' = Mutate(store, m, clock)
  /\ clock' = clock + 1
  /\ UNCHANGED <<last, pre, resp, ret, calls, inflight, cleanup, parked, prov, run, wipe, race>>

\* a mutation is called and its readData returns the file's content
RaceRead(h, m) ==
  /\ race.t[h].pc = "idle"
  /\ race' = [race EXCEPT
       !.base = IF \A g \in Handlers : race.t[g].pc = "idle" THEN store ELSE @,
       !.t[h] = [pc |-> IF Writes(store, m) THEN "read" ELSE "done",
                 m |-> m, data |-> store, now |-> 0]]
  /\ UNCHANGED <<store, clock, last, pre, resp, ret, calls, inflight, cleanup, parked, prov, run, wipe>>

\* the mutation changes the object it read and writeData replaces the file by it
RaceWrite(h) ==
  /\ race.t[h].pc = "read"
  /\ store' = Mutate(race.t[h].data, race.t[h].m, clock)
  /\ race' = [race EXCEPT !.t[h].pc = "done", !.t[h].now = clock]
  /\ clock' = clock + 1
  /\ UNCHANGED <<last, pre, resp, ret, calls, inflight, cleanup, parked, prov, run, wipe>>

NextRace ==
  \/ RaceSeed
  \/ \E h \in Handlers, m \in Mutations : RaceRead(h, m)
  \/ \E h \in Handlers : RaceWrite(h)

SpecRace == Init /\ [][NextRace]_vars

\* the store after the mutation of handler g ran alone on the store the
\* overlapping mutations started from, and then that of handler h
OneAfterTheOther(g, h) ==
  Mutate(Mutate(race.base, race.t[g].m, race.t[g].now), race.t[h].m, race.t[h].now)

\* C18: when two storage mutations of webhook handlers overlap and both
\* complete, the store is what the two give when one runs after the other,
\* in one of the two orders: the mutation of neither is lost, be they for the
\* same customer or for two.
C18_NoMutationLost ==
  (\A h \in Handlers : race.t[h].pc = "done")
    => store \in {OneAfterTheOther(1, 2), OneAfterTheOther(2, 1)}

\* ======================================================================
\* Claims C21 - C28
\* ======================================================================

\* a customer.subscription.updated that reports the recovery from past_due
IsRecovery(r) ==
  r.type = "customer.subscription.updated"
    /\ r.status = "active" /\ r.prev_status = "past_due"

\* C21: once customer.subscription.deleted for a subscription has been
\* processed, a customer.subscription.paused, a customer.subscription.resumed
\* or a recovery customer.subscription.updated for that subscription that is
\* delivered later leaves the local subscription status 'canceled'.
C21_CanceledStaysCanceled ==
  (/\ last.sigOK
   /\ \/ last.type \in {"customer.subscription.paused", "customer.subscription.resumed"}
      \/ IsRecovery(last)
   /\ last.customer \in DOMAIN pre
   /\ pre[last.customer].subscription =
        [stripeSubscriptionId |-> last.subscription, status |-> "canceled"])
  => store[last.customer].subscription.status = "canceled"

\* an invoice.payment_succeeded of a subscription the provider reports active
IsPaidActive(r) ==
  /\ r.type = "invoice.payment_succeeded" /\ r.sigOK
  /\ r.subscription # Null /\ r.customer # Null
  /\ r.subOK /\ r.subStatus = "active"

\* a customer.created of customer c
IsCreated(r, c) == r.type = "customer.created" /\ r.sigOK /\ r.customer = c

\* C22: when the customer.created and the invoice.payment_succeeded (provider
\* status active) of a customer have both been processed, one right after the
\* other in either order, the customer's local record exists and has
\* subscription.status 'active'.
C22_PaymentRecordedEitherOrder ==
  [][\A c \in CustomerIds :
       (\/ IsPaidActive(last) /\ last.customer = c /\ IsCreated(last', c)
        \/ IsCreated(last, c) /\ IsPaidActive(last') /\ last'.customer = c)
       => (c \in DOMAIN store' /\ store'[c].subscription.status = "active")]_vars

\* the requests that write the local subscription
WritesSubscription(r) ==
  \/ r.type = "invoice.payment_succeeded" /\ r.subStatus = "active"
  \/ r.type = "customer.subscription.updated"
       /\ r.status = "active" /\ r.prev_status = "past_due"
  \/ r.type \in {"customer.subscription.deleted", "customer.subscription.paused",
                 "customer.subscription.resumed"}

\* the requests the route only logs
OnlyLogged(r) ==
  \/ r.type \in {"customer.subscription.created", "payment_intent.succeeded",
                 "payment_intent.payment_failed", "invoice.created", "invoice.upcoming"}
  \/ r.type \notin EventTypes
  \/ r.type = "customer.subscription.updated"
       /\ ~(r.status = "active" /\ r.prev_status = "past_due")

\* C23: the local subscription of a customer changes only while an
\* invoice.payment_succeeded with provider status active, a recovery
\* customer.subscription.updated, a customer.subscription.deleted, paused or
\* resumed of that customer is processed, and a new record starts without
\* one; customer.subscription.created, every other
\* customer.subscription.updated, payment_intent.*, invoice.created,
\* invoice.upcoming and unknown event types leave the whole store unchanged
\* and are answered 200.
C23_SubscriptionWrittenOnConfirmedChange ==
  /\ \A c \in DOMAIN store :
       IF c \in DOMAIN pre
       THEN store[c].subscription # pre[c].subscription
              => (last.sigOK /\ last.customer = c /\ WritesSubscription(last))
       ELSE store[c].subscription = NoSubscription
  /\ (last.sigOK /\ last.type # Null /\ OnlyLogged(last))
       => (store = pre /\ resp = 200)

\* a customer.subscription.updated that reports past_due was processed for a
\* customer whose active subscription is recorded, and the record stayed
C23_Witness ==
  /\ last.type = "customer.subscription.updated" /\ last.sigOK
  /\ last.status = "past_due"
  /\ last.customer \in DOMAIN pre
  /\ pre[last.customer].subscription.status = "active"
  /\ store = pre /\ resp = 200

C25_SummaryOverwritesWholesale ==
  (IsSummary(last) /\ last.sigOK /\ resp = 200)
  => /\ last.customer \in DOMAIN store
     /\ DOMAIN store[last.customer].entitlements = last.ents
     /\ \A e \in last.ents :
          /\ store[last.customer].entitlements[e].status = "active"
          /\ store[last.customer].entitlements[e].stripeEntitlementId = e

\* a summary that lists ent_2 only was processed for a customer that had ent_1
C25_Witness ==
  /\ IsSummary(last) /\ last.sigOK /\ resp = 200
  /\ last.ents = {"ent_2"}
  /\ last.customer \in DOMAIN pre
  /\ "ent_1" \in DOMAIN pre[last.customer].entitlements
  /\ DOMAIN store[last.customer].entitlements = {"ent_2"}

\* C26: in every state, a customer whose local subscription status is
\* 'canceled' has no feature: customerHasFeature is false for every key.
C26_CanceledHasNoFeature ==
  \A c \in DOMAIN store :
    store[c].subscription.status = "canceled" => NoFeature(store, c)

\* ======================================================================
\* The checkout page: prices shown with a validated coupon (checkout/page.js)
\* ======================================================================

MaxAmount == 30     \* largest original amount shown

Amounts == 0..MaxAmount

\* the coupons validate-promo can return: percent_off or amount_off set
Coupons ==
  {[present |-> TRUE, percent_off |-> p, amount_off |-> -1] :
     p \in 0..100}
  \cup {[present |-> TRUE, percent_off |-> -1, amount_off |-> k] :
     k \in 0..(MaxAmount + 1)}

\* a number in an if: null, undefined and 0 are falsy
Truthy(n) == n > 0

\* Math.round(a * (p / 100)): the nearest integer, a half going up; the
\* product is a floating-point number, so at an exact half it may fall on
\* either side (tieUp), the same side each time it is computed
MathRound(a, p, tieUp) ==
  IF (a * p) % 100 = 50 /\ ~tieUp THEN (a * p) \div 100
  ELSE (a * p + 50) \div 100

Max(x, y) == IF x > y THEN x ELSE y
Min(x, y) == IF x < y THEN x ELSE y

\* variant: the fixed-amount price is not kept from going below 0
calculateDiscountedPrice_NoMax(validatedCoupon, originalAmount, tieUp) ==
  IF ~validatedCoupon.present THEN originalAmount
  ELSE IF Truthy(validatedCoupon.percent_off)
  THEN originalAmount - MathRound(originalAmount, validatedCoupon.percent_off, tieUp)
  ELSE IF Truthy(validatedCoupon.amount_off)
  THEN originalAmount - validatedCoupon.amount_off
  ELSE originalAmount

calculateDiscountedPrice(validatedCoupon, originalAmount, tieUp) ==
  IF ~validatedCoupon.present THEN originalAmount
  ELSE IF Truthy(validatedCoupon.percent_off)
  THEN originalAmount - MathRound(originalAmount, validatedCoupon.percent_off, tieUp)
  ELSE IF Truthy(validatedCoupon.amount_off)
  THEN Max(0, originalAmount - validatedCoupon.amount_off)
  ELSE originalAmount

getDiscountAmount(validatedCoupon, originalAmount, tieUp) ==
  IF ~validatedCoupon.present THEN 0
  ELSE IF Truthy(validatedCoupon.percent_off)
  THEN MathRound(originalAmount, validatedCoupon.percent_off, tieUp)
  ELSE IF Truthy(validatedCoupon.amount_off)
  THEN Min(validatedCoupon.amount_off, originalAmount)
  ELSE 0

\* validatePromoCode stores the coupon of a valid answer, or clears it
SetValidatedCoupon ==
  /\ \E c \in Coupons \cup {NoCoupon} :
       run' = [BlankRun EXCEPT !.op = "checkout-page", !.coupon = c]
  /\ UNCHANGED <<store, clock, last, pre, resp, ret, calls, inflight, cleanup, race, parked, prov, wipe>>

\* the page shows the price and the discount of an amount
ShowPrice ==
  /\ \E a \in Amounts, tieUp \in BOOLEAN :
       run' = [run EXCEPT
                 !.op = "checkout-page", !.amount = a,
                 !.price = calculateDiscountedPrice(run.coupon, a, tieUp),
                 !.discount = getDiscountAmount(run.coupon, a, tieUp)]
  /\ UNCHANGED <<store, clock, last, pre, resp, ret, calls, inflight, cleanup, race, parked, prov, wipe>>

NextPrice ==
  \/ SetValidatedCoupon
  \/ ShowPrice

SpecPrice == Init /\ [][NextPrice]_vars

\* C28: for a non-negative original amount and a validated coupon with
\* percent_off in 0..100 or a non-negative amount_off, the discounted price
\* and the discount amount add up to the original amount and the price lies
\* between 0 and the original amount; with no coupon the price is the
\* original amount and the discount is 0.
C28_DiscountArithmetic ==
  run.op = "checkout-page"
    => /\ run.price + run.discount = run.amount
       /\ 0 <= run.price /\ run.price <= run.amount
       /\ ~run.coupon.present => (run.price = run.amount /\ run.discount = 0)

\* a fixed amount larger than the original amount took the price to 0 and the
\* discount to the original amount
C28_Witness ==
  /\ run.op = "checkout-page" /\ run.coupon.present
  /\ run.amount > 0
  /\ run.coupon.amount_off > run.amount
  /\ run.price = 0 /\ run.discount = run.amount

\* ----------------------------------------------------------------- C27

\* the webhook route handled the payment of a subscription in this step
PaidStep ==
  /\ clock' = clock + 1
  /\ last'.type = "invoice.payment_succeeded" /\ last'.sigOK
  /\ last'.subscription # Null /\ last'.customer # Null /\ last'.subOK

\* the incomplete subscriptions of the paying customer other than the paid one
OtherIncomplete == SubsOf(prov, last'.customer, "incomplete") \ {last'.subscription}

\* C27: when the webhook route handles invoice.payment_succeeded for a
\* subscription, it asks the provider to cancel every incomplete subscription
\* of the customer that the list call returns except the paid one, which it
\* never cancels, also when the provider still reports it incomplete; a cancel
\* that throws leaves that subscription as it was and the other cancels are
\* still made; when the list call throws no cancel is made; in every case the
\* response is 200 and the local store is what it would be had the cleanup
\* succeeded.
C27_CleanupSparesPaid ==
  [][PaidStep
       => /\ last'.listOK => cleanup'.asked = OtherIncomplete
          /\ ~last'.listOK => cleanup'.asked = {}
          /\ last'.subscription \notin cleanup'.asked
          /\ cleanup'.failed \subseteq cleanup'.asked
          /\ \A s \in cleanup'.asked \ cleanup'.failed :
               prov'.subs[s].status = "canceled"
          /\ \A s \in DOMAIN prov.subs \ (cleanup'.asked \ cleanup'.failed) :
               prov'.subs[s] = prov.subs[s]
          /\ resp' = 200
          /\ store' = POST(store, [last' EXCEPT !.listOK = TRUE], clock).store]_vars

\* the customer paid one of three subscriptions, the provider still reported
\* it incomplete when the event was handled; of the two others one cancel
\* threw and the other went through, and the route answered 200
C27_Witness ==
  /\ last.type = "invoice.payment_succeeded" /\ last.listOK
  /\ last.subStatus = "incomplete"
  /\ Cardinality(cleanup.asked) = 2 /\ Cardinality(cleanup.failed) = 1
  /\ last.subscription \notin cleanup.asked
  /\ prov.subs[last.subscription].status = "incomplete"
  /\ \E s \in cleanup.failed : prov.subs[s].status = "incomplete"
  /\ \E s \in cleanup.asked \ cleanup.failed : prov.subs[s].status = "canceled"
  /\ resp = 200

====
